---- MODULE Spec2Model ----
(***************************************************************************)
(* SimplifiedUtcpAgent (src/unnamed/part_008): the analyze / search /      *)
(* decide / execute / respond loop of one agent instance, driven by        *)
(* successive stream(userInput) calls.                                     *)
(*                                                                         *)
(* The language model, the tool search and the tool execution are          *)
(* external capabilities: every call of one of them either returns a       *)
(* value drawn from a small set or fails.  A tool call resolves to a       *)
(* string or to a JSON value, as the capability contract states.           *)
(* A turn of the conversation is a record                                  *)
(*   [role, kind, ref, len]                                                *)
(* role is the LangChain message type, kind says which statement of the    *)
(* source built the turn, ref is the name the text mentions (a tool, a     *)
(* parameter) and len is the number of characters of the content.          *)
(*                                                                         *)
(* Five specifications share the definitions.  Spec is one instance       *)
(* serving stream calls one after the other.  Units applies one function   *)
(* once to an argument drawn from a bounded set: the decision parser, the  *)
(* argument validator, summarizeContext, the tool result turn, and         *)
(* decideAction and executeTools of UtcpAgent (src/unnamed/part_006).      *)
(* Overlap is one instance serving two stream calls at the same time.      *)
(* Twin is a SimplifiedUtcpAgent and a UtcpAgent given the same answers.   *)
(* App is handleSendMessage of the application, with the chat store,       *)
(* pulling the steps of any agent's stream.                                *)
(***************************************************************************)
EXTENDS Integers, Sequences, FiniteSets, TLC

\* ------------------------------------------------------------------ bounds
MaxIter == 2
MaxRuns == 2
MaxTurns == 3

\* --------------------------------------------------------------- constants
SmallThreshold == 90
SystemPromptLen == 31
AnalyzeSystemLen == 232
NextStepLen == 18
DecidePromptLen == 876
CriticalLineLen == 156
NoToolsLen == 18
RespondPromptLen == 303
EmptyHintLen == 61
TooLongPrefixLen == 113
TooLongKeep == 100
ToolResultPrefixLen == 13
SummaryPrefixLen == 22
RecentCount == 2
TaskLen == 12
UserInputLen == 5

Absent == "<absent>"

VARIABLES
    maxIterations,      \* this.config.maxIterations
    summarizeThreshold, \* this.config.summarizeThreshold
    messages,           \* this.messages
    pc,                 \* position of the generator inside stream
    run,                \* number of stream calls started on this instance
    iterations,         \* local 'iterations' of stream
    shouldContinue,     \* local 'shouldContinue' of stream
    task,               \* local 'task' of the current iteration
    tools,              \* local 'tools' of the current iteration
    answer,             \* what the model answered to this iteration's decision prompt
    decision,           \* local 'decision' of the current iteration
    result,             \* local 'result' of the current iteration
    events,             \* the AgentStep values yielded by this stream call
    prompt,             \* the messages handed to the last phase's callLLM
    called,             \* tool names handed to utcpClient.callTool in this call
    decides,            \* number of decideAction calls in this stream call
    consulted,          \* number of decision requests sent to the model
    failed,             \* the capabilities that failed in the last phase
    escaped,            \* TRUE when an exception left the generator
    unit,               \* the function applied on its own (Units); otherwise the
                        \* specification: "stream", "overlap", "twin"
    input,              \* the arguments that function is applied to (Units); the
                        \* capabilities' answers of the current cycle (Twin)
    output,             \* what it returned
    applied,            \* TRUE once it has returned
    calls,              \* the locals of each of two stream calls: overlapping on one
                        \* instance (Overlap), one on each agent (Twin)
    app                 \* the chat store and the locals of handleSendMessage (App)

vars == <<maxIterations, summarizeThreshold, messages, pc, run, iterations,
          shouldContinue, task, tools, answer, decision, result, events, prompt,
          called, decides, consulted, failed, escaped>>

\* the variables of the function-level and of the overlapping-calls specifications
apart == <<unit, input, output, applied, calls, app>>

config == <<maxIterations, summarizeThreshold>>

\* ------------------------------------------------------------------- turns
SystemMessage(len) == [role |-> "system", kind |-> "system", ref |-> Absent, len |-> len]
HumanMessage(kind, ref, len) == [role |-> "human", kind |-> kind, ref |-> ref, len |-> len]
AIMessage(kind, ref, len) == [role |-> "ai", kind |-> kind, ref |-> ref, len |-> len]

IsSystem(m) == m.role = "system"
NonSystem(m) == m.role # "system"

RECURSIVE SumLen(_)
SumLen(ms) == IF ms = << >> THEN 0 ELSE Head(ms).len + SumLen(Tail(ms))

estimateTokenCountRoundedUp(ms) == (SumLen(ms) + 3) \div 4

estimateTokenCount(ms) == SumLen(ms) \div 4

Last2(s) == SubSeq(s, Len(s) - RecentCount + 1, Len(s))

\* the length of a name interpolated in a template string
NameLen(n) == IF n = Absent THEN 9 ELSE IF n = "" THEN 0 ELSE 1

\* ------------------------------------------------------- model invocations
\* an outcome of llm.invoke: the text returned (its length), or a failure
LLMOutcomes == {[ok |-> TRUE, len |-> 12], [ok |-> FALSE, len |-> 0]}

\* callLLM returns the trimmed text, and rethrows what llm.invoke throws
callLLM(out) == IF out.ok THEN [ok |-> TRUE, len |-> out.len] ELSE [ok |-> FALSE, len |-> 0]

\* the outcomes of the summarizing invocation: there is one only when more
\* than recentCount turns other than the system turn are in the conversation
SummaryOutcomes(msgs) ==
    IF Len(SelectSeq(msgs, NonSystem)) <= RecentCount THEN {[ok |-> TRUE, len |-> 12]}
    ELSE LLMOutcomes

summarizeRethrow(sys, recent) == [msgs |-> sys \o recent, failed |-> TRUE, thrown |-> TRUE]

summarizeCatch(sys, recent) == [msgs |-> sys \o recent, failed |-> TRUE, thrown |-> FALSE]

summarizeContext(msgs, out) ==
    LET sys == SelectSeq(msgs, IsSystem)
        non == SelectSeq(msgs, NonSystem)
    IN  IF Len(non) <= RecentCount
        THEN [msgs |-> msgs, failed |-> FALSE, thrown |-> FALSE]
        ELSE IF callLLM(out).ok
             THEN [msgs |-> sys \o <<HumanMessage("summary", Absent, SummaryPrefixLen + out.len)>> \o Last2(non),
                   failed |-> FALSE, thrown |-> FALSE]
             ELSE summarizeCatch(sys, Last2(non))

\* ------------------------------------------------------------- tool search
\* Tool descriptors the search capability can return.  inputs.form says how
\* the descriptor declares its inputs: not at all, or as an array of
\* {name, required} entries.
NoInputs == [form |-> "absent", required |-> {}, optional |-> {}]
ToolX == [name |-> "X", inputs |-> [form |-> "array", required |-> {"q"}, optional |-> {"p"}]]
ToolY == [name |-> "Y", inputs |-> NoInputs]
\* a descriptor whose inputs are a JSON Schema object: properties, and the
\* names of the required ones
ToolW == [name |-> "W", inputs |-> [form |-> "schema", required |-> {"q"}, optional |-> {"p"}]]

\* an outcome of utcpClient.searchTools: the descriptors found, or a failure
SearchOutcomes ==
    {[ok |-> TRUE, tools |-> ts] : ts \in {<< >>, <<ToolX, ToolY>>}}
    \cup {[ok |-> FALSE, tools |-> << >>]}

searchToolsCatch == [tools |-> << >>, failed |-> TRUE, thrown |-> FALSE]

searchTools(out) ==
    IF out.ok THEN [tools |-> out.tools, failed |-> FALSE, thrown |-> FALSE]
    ELSE searchToolsCatch

ToolNames(ts) == {ts[i].name : i \in 1..Len(ts)}

\* ---------------------------------------------------------------- analysis
\* catch (error) { return "Unknown task"; }
analyzeTaskCatch == [task |-> "Unknown task", failed |-> TRUE, thrown |-> FALSE]

\* the messages analyzeTask sends to the model
analyzePrompt(msgs, sumOut) ==
    LET taskAnalysisMessages ==
            <<SystemMessage(AnalyzeSystemLen)>> \o SelectSeq(msgs, NonSystem)
                \o <<HumanMessage("next_step", Absent, NextStepLen)>>
    IN  IF estimateTokenCount(taskAnalysisMessages) > summarizeThreshold
        THEN LET summarized == summarizeContext(msgs, sumOut)
             IN  [msgs |-> <<SystemMessage(AnalyzeSystemLen)>> \o summarized.msgs
                              \o <<HumanMessage("next_step", Absent, NextStepLen)>>,
                  summarized |-> TRUE, failed |-> summarized.failed, thrown |-> summarized.thrown]
        ELSE [msgs |-> taskAnalysisMessages, summarized |-> FALSE, failed |-> FALSE, thrown |-> FALSE]

analyzeTask(out) ==
    IF callLLM(out).ok THEN [task |-> "task", failed |-> FALSE, thrown |-> FALSE]
    ELSE analyzeTaskCatch

\* ---------------------------------------------------------------- decision
NoArgs == [present |-> FALSE, keys |-> {}]
Args(keys) == [present |-> TRUE, keys |-> keys]

\* what the model answers to the decision prompt: the call fails, the text
\* holds no extractable JSON span, the span is not valid JSON, or the span
\* parses to an object with fields <<action, tool_name, toolName, arguments>>
JsonAnswers ==
    { <<"call_tool", "X", Absent, Args({"q"})>>,
      <<"call_tool", Absent, "X", Args({"q"})>>,
      <<"call_tool", "X", Absent, Args({})>>,
      <<"call_tool", "X", Absent, NoArgs>>,
      <<"call_tool", "Y", Absent, NoArgs>>,
      <<"call_tool", "Z", Absent, Args({"q"})>>,
      <<"call_tool", Absent, Absent, Args({"q"})>>,
      <<"call_tool", "", "X", Args({"q"})>>,
      <<"call_tool", "", Absent, Args({"q"})>>,
      <<"call_tool", "Z", "X", Args({"q"})>>,
      <<"respond", Absent, Absent, NoArgs>>,
      <<"respond", "X", Absent, Args({"q"})>>,
      <<"end", Absent, Absent, NoArgs>>,
      <<"other", Absent, Absent, NoArgs>>,
      <<Absent, Absent, Absent, NoArgs>>,
      <<Absent, "X", Absent, Args({"q"})>> }

DecideOutcomes ==
    {[ok |-> k # "throw", kind |-> k, action |-> Absent, tool_name |-> Absent, toolName |-> Absent,
      arguments |-> NoArgs] : k \in {"throw", "nojson", "badjson"}}
    \cup {[ok |-> TRUE, kind |-> "json", action |-> j[1], tool_name |-> j[2], toolName |-> j[3],
           arguments |-> j[4]] : j \in JsonAnswers}

NoAnswer == [ok |-> TRUE, kind |-> "none", action |-> Absent, tool_name |-> Absent, toolName |-> Absent,
             arguments |-> NoArgs]
NoDecision == [action |-> Absent, toolName |-> Absent, arguments |-> NoArgs, message |-> Absent]
Respond(message) == [action |-> "respond", toolName |-> Absent, arguments |-> NoArgs, message |-> message]

Truthy(v) == v # Absent /\ v # ""

\* decision.arguments || {}
ArgKeys(ar) == IF ar.present THEN ar.keys ELSE {}

validateFailOpen(toolName, args, ts) ==
    IF toolName \notin ToolNames(ts)
    THEN [valid |-> TRUE, error |-> Absent, missing |-> {}]
    ELSE LET tool == ts[CHOOSE i \in 1..Len(ts) : ts[i].name = toolName]
             missingParams == tool.inputs.required \ args
         IN  IF tool.inputs.form = "array" /\ missingParams # {}
             THEN [valid |-> FALSE, error |-> "missing", missing |-> missingParams]
             ELSE [valid |-> TRUE, error |-> Absent, missing |-> {}]

validateToolArguments(toolName, args, ts) ==
    IF toolName \notin ToolNames(ts)
    THEN [valid |-> FALSE, error |-> "not_found", missing |-> {}]
    ELSE LET tool == ts[CHOOSE i \in 1..Len(ts) :
                        ts[i].name = toolName /\ \A j \in 1..(i - 1) : ts[j].name # toolName]
             missingParams == tool.inputs.required \ args
         IN  IF tool.inputs.form = "array" /\ missingParams # {}
             THEN [valid |-> FALSE, error |-> "missing", missing |-> missingParams]
             ELSE [valid |-> TRUE, error |-> Absent, missing |-> {}]

iterationLimitPassed(iterationCount) == iterationCount > maxIterations

iterationLimitReached(iterationCount) == iterationCount >= maxIterations

\* let action = decision.action || "respond", with "end" turned into "respond"
localAction(a) == IF a = Absent \/ a = "end" THEN "respond" ELSE a

keepEnd(a) == a

\* the action field of the object decideAction returns
endToRespond(a) == IF a = "end" THEN "respond" ELSE a

toolNameOnly(tool_name, toolName) == toolName

normalizeToolName(tool_name, toolName) == IF Truthy(tool_name) THEN tool_name ELSE toolName

hasRecentError(msgs) == \E i \in 1..Len(msgs) : msgs[i].role = "human" /\ msgs[i].kind = "param_error"

\* the length of JSON.stringify of the descriptors shown to the model
toolsTextLen(ts) == IF Len(ts) > 0 THEN 2 + 260 * Len(ts) ELSE NoToolsLen

decisionPromptMessage(msgs, tsk, ts) ==
    HumanMessage("decide_prompt", Absent,
        DecidePromptLen + TaskLen + toolsTextLen(ts)
            + (IF hasRecentError(msgs) THEN CriticalLineLen ELSE 0))

decidePrompt(msgs, tsk, ts, sumOut) ==
    LET decisionMessages == msgs \o <<decisionPromptMessage(msgs, tsk, ts)>>
    IN  IF estimateTokenCount(decisionMessages) > summarizeThreshold
        THEN LET summarized == summarizeContext(msgs, sumOut)
             IN  [msgs |-> summarized.msgs \o <<decisionPromptMessage(msgs, tsk, ts)>>,
                  summarized |-> TRUE, failed |-> summarized.failed, thrown |-> summarized.thrown]
        ELSE [msgs |-> decisionMessages, summarized |-> FALSE, failed |-> FALSE, thrown |-> FALSE]

validationErrorTurn(toolName, v) ==
    AIMessage("validation_error", toolName,
        94 + NameLen(toolName)
           + (IF v.error = "not_found" THEN 15 + NameLen(toolName)
              ELSE 29 + 3 * Cardinality(v.missing) - 2))

decideActionCatch == [decision |-> Respond("llm_error"), push |-> << >>, consulted |-> TRUE,
                      validated |-> FALSE, failed |-> TRUE, thrown |-> FALSE]

decideActionUnvalidated(ts, iterationCount, out) ==
    IF iterationLimitReached(iterationCount)
    THEN [decision |-> Respond("max_iterations"), push |-> << >>, consulted |-> FALSE,
          validated |-> FALSE, failed |-> FALSE, thrown |-> FALSE]
    ELSE IF out.kind = "throw" THEN decideActionCatch
    ELSE IF out.kind = "nojson"
    THEN [decision |-> Respond(Absent), push |-> << >>, consulted |-> TRUE,
          validated |-> FALSE, failed |-> FALSE, thrown |-> FALSE]
    ELSE IF out.kind = "badjson"
    THEN [decision |-> Respond("raw_text"), push |-> << >>, consulted |-> TRUE,
          validated |-> FALSE, failed |-> FALSE, thrown |-> FALSE]
    ELSE [decision |-> [action |-> endToRespond(out.action),
                        toolName |-> normalizeToolName(out.tool_name, out.toolName),
                        arguments |-> out.arguments, message |-> Absent],
          push |-> << >>, consulted |-> TRUE, validated |-> FALSE,
          failed |-> FALSE, thrown |-> FALSE]

\* decideAction(task, tools, iterationCount), given the model's answer
decideAction(ts, iterationCount, out) ==
    IF iterationLimitReached(iterationCount)
    THEN [decision |-> Respond("max_iterations"), push |-> << >>, consulted |-> FALSE,
          validated |-> FALSE, failed |-> FALSE, thrown |-> FALSE]
    ELSE IF out.kind = "throw" THEN decideActionCatch
    ELSE IF out.kind = "nojson"
    THEN [decision |-> Respond(Absent), push |-> << >>, consulted |-> TRUE,
          validated |-> FALSE, failed |-> FALSE, thrown |-> FALSE]
    ELSE IF out.kind = "badjson"
    THEN [decision |-> Respond("raw_text"), push |-> << >>, consulted |-> TRUE,
          validated |-> FALSE, failed |-> FALSE, thrown |-> FALSE]
    ELSE LET toolName == normalizeToolName(out.tool_name, out.toolName)
             validation == validateToolArguments(toolName, ArgKeys(out.arguments), ts)
         IN  IF localAction(out.action) = "call_tool" /\ ~validation.valid
             THEN [decision |-> Respond("validation_failed"),
                   push |-> <<validationErrorTurn(toolName, validation)>>, consulted |-> TRUE,
                   validated |-> TRUE, failed |-> FALSE, thrown |-> FALSE]
             ELSE [decision |-> [action |-> endToRespond(out.action), toolName |-> toolName,
                                 arguments |-> out.arguments, message |-> Absent],
                   push |-> << >>, consulted |-> TRUE,
                   validated |-> localAction(out.action) = "call_tool",
                   failed |-> FALSE, thrown |-> FALSE]

\* --------------------------------------------------------------- execution
NoResult == [kind |-> "none", len |-> 0, detail |-> Absent, named |-> FALSE]

\* what utcpClient.callTool does: it resolves to a non-blank string, a blank
\* string, a string too long for the context, a JSON object, a JSON object
\* with an "error" key, or it rejects with an error whose message is
\* classified by what executeTool looks for in it: the substrings
\* "Missing required", "parameter" and "variable", and (named) a match of
\* /Missing required[^:]*:\s*(\w+)/
ToolOutcomes ==
    {[ok |-> TRUE, kind |-> k, missingRequired |-> FALSE, parameter |-> FALSE,
      variable |-> FALSE, named |-> FALSE] : k \in {"text", "blank", "long", "object", "errobj"}}
    \cup {[ok |-> FALSE, kind |-> "reject", missingRequired |-> e[1], parameter |-> e[2],
           variable |-> e[3], named |-> e[4]] :
            e \in {<<TRUE, TRUE, FALSE, TRUE>>, <<TRUE, TRUE, FALSE, FALSE>>,
                   <<FALSE, TRUE, FALSE, FALSE>>, <<FALSE, FALSE, TRUE, FALSE>>,
                   <<TRUE, FALSE, TRUE, TRUE>>, <<FALSE, FALSE, FALSE, FALSE>>}}

ResultLen(kind) ==
    CASE kind = "text" -> 20
      [] kind = "blank" -> 2
      [] kind = "long" -> 4 * summarizeThreshold + 4
      [] kind = "object" -> 20
      [] OTHER -> 30

\* the length of JSON.stringify(args), every value taking one character
argsLen(keys) == IF keys = {} THEN 2 ELSE 1 + 8 * Cardinality(keys)

\* errorMsg.includes("Missing required") || errorMsg.includes("parameter")
isParameterError(out) == out.missingRequired \/ out.parameter

isVariableError(out) == out.variable

paramErrorTurnAsAssistant(out, ar) ==
    AIMessage("param_error", IF out.named THEN "q" ELSE "unknown parameter",
              155 + (IF out.named THEN 1 ELSE 17) + argsLen(ArgKeys(ar)))

paramErrorTurn(out, ar) ==
    HumanMessage("param_error", IF out.named THEN "q" ELSE "unknown parameter",
                 155 + (IF out.named THEN 1 ELSE 17) + argsLen(ArgKeys(ar)))

\* executeTool(toolName, args), given what callTool and the variable lookup do
executeTool(toolName, ar, out, varsOk) ==
    IF out.ok
    THEN [result |-> [kind |-> out.kind, len |-> ResultLen(out.kind), detail |-> Absent,
                      named |-> FALSE],
          push |-> << >>, failed |-> FALSE, thrown |-> FALSE]
    ELSE IF isParameterError(out)
    THEN [result |-> [kind |-> "error", len |-> 0, detail |-> "recoverable",
                      named |-> out.named],
          push |-> <<paramErrorTurn(out, ar)>>, failed |-> TRUE, thrown |-> FALSE]
    ELSE IF isVariableError(out)
    THEN [result |-> [kind |-> "error", len |-> 0,
                      detail |-> IF varsOk THEN "required_variables" ELSE "variable_message",
                      named |-> FALSE],
          push |-> << >>, failed |-> TRUE, thrown |-> FALSE]
    ELSE [result |-> [kind |-> "error", len |-> 0, detail |-> "other", named |-> FALSE],
          push |-> << >>, failed |-> TRUE, thrown |-> FALSE]

\* result && typeof result === "object" && "error" in result
isErrorResult(r) == r.kind \in {"error", "errobj"}

toolCalledTurn(toolName, ar) ==
    AIMessage("tool_called", toolName,
              30 + NameLen(toolName) + (IF ar.present THEN argsLen(ar.keys) ELSE 9))

resultTurn(r) ==
    IF r.kind = "blank" THEN HumanMessage("empty_result", Absent, EmptyHintLen)
    ELSE IF estimateTokenCount(<<HumanMessage("raw", Absent, r.len)>>) > summarizeThreshold
    THEN HumanMessage("truncated_result", Absent,
                      TooLongPrefixLen + (IF r.len < TooLongKeep THEN r.len ELSE TooLongKeep) + 3)
    ELSE HumanMessage("tool_result", Absent, ToolResultPrefixLen + r.len)

\* the turns stream appends after executeTool returned r
afterExecute(toolName, ar, r) ==
    IF isErrorResult(r) THEN << >>
    ELSE <<toolCalledTurn(toolName, ar), resultTurn(r)>>

\* ---------------------------------------------------------------- response
generateResponseCatch == [response |-> "error_text", failed |-> TRUE, thrown |-> FALSE]

respondPrompt(msgs, sumOut) ==
    LET responseMessages == msgs \o <<HumanMessage("respond_prompt", Absent, RespondPromptLen)>>
    IN  IF estimateTokenCount(responseMessages) > summarizeThreshold
        THEN LET summarized == summarizeContext(msgs, sumOut)
             IN  [msgs |-> summarized.msgs \o <<HumanMessage("respond_prompt", Absent, RespondPromptLen)>>,
                  summarized |-> TRUE, failed |-> summarized.failed, thrown |-> summarized.thrown]
        ELSE [msgs |-> responseMessages, summarized |-> FALSE, failed |-> FALSE, thrown |-> FALSE]

generateResponse(out) ==
    IF callLLM(out).ok THEN [response |-> "text", failed |-> FALSE, thrown |-> FALSE]
    ELSE generateResponseCatch

\* ------------------------------------------------------------------ stream
Event(step, data) == [step |-> step, data |-> data]

\* callLLM keeps the first system message only, ahead of the other messages
processedMessages(ms) ==
    LET systemMessages == SelectSeq(ms, IsSystem)
        otherMessages == SelectSeq(ms, NonSystem)
    IN  IF Len(systemMessages) > 0 THEN <<systemMessages[1]>> \o otherMessages ELSE otherMessages

Failed(flag, name) == IF flag THEN {name} ELSE {}

\* ----------------------------------------------------------------- chat store
\* useChatStore as created (src/unnamed/part_005), with the locals of
\* handleSendMessage: where the call is (pc), fullResponse, and how many
\* steps it has pulled (pulled); agent says whether the application has an
\* agent, sends counts the calls of handleSendMessage
ChatStore ==
    [messages |-> << >>, isStreaming |-> FALSE, currentStreamingMessage |-> "",
     currentStep |-> Absent, agent |-> FALSE, pc |-> "idle", fullResponse |-> "",
     pulled |-> 0, sends |-> 0]

Init ==
    /\ maxIterations \in 1..MaxIter
    /\ summarizeThreshold = SmallThreshold
    /\ messages = << >>
    /\ pc = "idle"
    /\ run = 0
    /\ iterations = 0
    /\ shouldContinue = FALSE
    /\ task = Absent
    /\ tools = << >>
    /\ answer = NoAnswer
    /\ decision = NoDecision
    /\ result = NoResult
    /\ events = << >>
    /\ prompt = << >>
    /\ called = << >>
    /\ decides = 0
    /\ consulted = 0
    /\ failed = {}
    /\ escaped = FALSE
    /\ unit = "stream"
    /\ input = << >>
    /\ output = << >>
    /\ applied = FALSE
    /\ calls = << >>
    /\ app = ChatStore

withUserInputFresh(msgs) ==
    <<SystemMessage(SystemPromptLen), HumanMessage("user_input", Absent, UserInputLen)>>

withUserInputKeepingAll(msgs) ==
    <<SystemMessage(SystemPromptLen)>> \o msgs \o <<HumanMessage("user_input", Absent, UserInputLen)>>

\* the conversation stream starts from: the system turn, the earlier turns
\* other than system turns, the new user input
withUserInput(msgs) ==
    <<SystemMessage(SystemPromptLen)>> \o SelectSeq(msgs, NonSystem)
        \o <<HumanMessage("user_input", Absent, UserInputLen)>>

\* stream(userInput), up to the first test of the loop condition; a further
\* call is explored while the conversation holds at most MaxTurns turns
StreamStart ==
    /\ pc \in {"idle", "done"}
    /\ run < MaxRuns
    /\ Len(messages) <= MaxTurns
    /\ messages' = withUserInput(messages)
    /\ iterations' = 0
    /\ shouldContinue' = TRUE
    /\ pc' = "loop"
    /\ run' = run + 1
    /\ task' = Absent
    /\ tools' = << >>
    /\ answer' = NoAnswer
    /\ decision' = NoDecision
    /\ result' = NoResult
    /\ events' = << >>
    /\ prompt' = << >>
    /\ called' = << >>
    /\ decides' = 0
    /\ consulted' = 0
    /\ failed' = {}
    /\ escaped' = FALSE
    /\ UNCHANGED <<apart, config>>

loopConditionOr == shouldContinue \/ iterations < maxIterations

nextIterationStuck(i) == i

\* iterations++
nextIteration(i) == i + 1

\* while (shouldContinue && iterations < this.config.maxIterations)
loopCondition == shouldContinue /\ iterations < maxIterations

LoopEnter ==
    /\ pc = "loop"
    /\ loopCondition
    /\ iterations' = nextIteration(iterations)
    /\ pc' = "analyze"
    /\ task' = Absent
    /\ tools' = << >>
    /\ answer' = NoAnswer
    /\ decision' = NoDecision
    /\ result' = NoResult
    /\ failed' = {}
    /\ prompt' = << >>
    /\ UNCHANGED <<apart, config, messages, run, shouldContinue, events, called, decides,
                   consulted, escaped>>

\* the loop condition is false: the generator returns
LoopExit ==
    /\ pc = "loop"
    /\ ~loopCondition
    /\ pc' = "done"
    /\ task' = Absent
    /\ tools' = << >>
    /\ answer' = NoAnswer
    /\ decision' = NoDecision
    /\ result' = NoResult
    /\ failed' = {}
    /\ prompt' = << >>
    /\ UNCHANGED <<apart, config, messages, run, iterations, shouldContinue, events, called,
                   decides, consulted, escaped>>

AnalyzeStep ==
    /\ pc = "analyze"
    /\ \E sumOut \in SummaryOutcomes(messages), out \in LLMOutcomes :
        LET p == analyzePrompt(messages, sumOut)
            a == analyzeTask(out)
            thrown == p.thrown \/ a.thrown
        IN  /\ prompt' = processedMessages(p.msgs)
            /\ task' = a.task
            /\ failed' = Failed(p.failed, "summarize") \cup Failed(a.failed, "analyze")
            /\ events' = events \o <<Event("analyze", "start")>>
                            \o (IF thrown THEN << >> ELSE <<Event("analyze", "task")>>)
            /\ escaped' = thrown
            /\ pc' = IF thrown THEN "done" ELSE "search"
    /\ UNCHANGED <<apart, config, messages, run, iterations, shouldContinue, tools, answer, decision, result,
                   called, decides, consulted>>

SearchStep ==
    /\ pc = "search"
    /\ \E out \in SearchOutcomes :
        LET s == searchTools(out)
        IN  /\ tools' = s.tools
            /\ failed' = Failed(s.failed, "search")
            /\ events' = events \o <<Event("search", "start")>>
                            \o (IF s.thrown THEN << >> ELSE <<Event("search", "tools")>>)
            /\ escaped' = s.thrown
            /\ pc' = IF s.thrown THEN "done" ELSE "decide"
    /\ UNCHANGED <<apart, config, messages, run, iterations, shouldContinue, task, answer, decision, result,
                   prompt, called, decides, consulted>>

\* where stream goes after the decide event
streamBranch(action) ==
    CASE action = "respond" -> "respond"
      [] action = "call_tool" -> "execute"
      [] OTHER -> "loop"

\* at the iteration limit decideAction returns before anything is sent to the model
Consulted(iterationCount, outcomes) ==
    IF iterationLimitReached(iterationCount) THEN {CHOOSE o \in outcomes : o.ok} ELSE outcomes

DecideStep ==
    /\ pc = "decide"
    /\ \E sumOut \in Consulted(iterations, SummaryOutcomes(messages)),
          out \in Consulted(iterations, DecideOutcomes) :
        LET limit == iterationLimitReached(iterations)
            p == decidePrompt(messages, task, tools, sumOut)
            d == decideAction(tools, iterations, out)
            thrown == d.thrown \/ (~limit /\ p.thrown)
        IN  /\ prompt' = IF limit THEN prompt ELSE processedMessages(p.msgs)
            /\ answer' = IF d.consulted THEN out ELSE NoAnswer
            /\ decision' = d.decision
            /\ messages' = messages \o d.push
            /\ decides' = decides + 1
            /\ consulted' = IF d.consulted THEN consulted + 1 ELSE consulted
            /\ failed' = Failed(~limit /\ p.failed, "summarize")
                               \cup Failed(d.failed, "decide")
            /\ events' = events \o <<Event("decide", "start")>>
                            \o (IF thrown THEN << >> ELSE <<Event("decide", d.decision.action)>>)
            /\ escaped' = thrown
            /\ pc' = IF thrown THEN "done" ELSE streamBranch(d.decision.action)
            /\ shouldContinue' = IF ~thrown /\ streamBranch(d.decision.action) = "loop"
                                 THEN FALSE ELSE shouldContinue
    /\ UNCHANGED <<apart, config, run, iterations, task, tools, result, called>>

RespondStep ==
    /\ pc = "respond"
    /\ \E sumOut \in SummaryOutcomes(messages), out \in LLMOutcomes :
        LET p == respondPrompt(messages, sumOut)
            r == generateResponse(out)
            thrown == p.thrown \/ r.thrown
        IN  /\ prompt' = processedMessages(p.msgs)
            /\ failed' = Failed(p.failed, "summarize") \cup Failed(r.failed, "respond")
            /\ events' = events \o <<Event("respond", "start")>>
                            \o (IF thrown THEN << >> ELSE <<Event("respond", r.response)>>)
            /\ escaped' = thrown
            /\ pc' = IF thrown THEN "done" ELSE "loop"
            /\ shouldContinue' = IF thrown THEN shouldContinue ELSE FALSE
    /\ UNCHANGED <<apart, config, messages, run, iterations, task, tools, answer, decision, result,
                   called, decides, consulted>>

ExecuteStep ==
    /\ pc = "execute"
    /\ \E out \in ToolOutcomes : \E varsOk \in (IF isVariableError(out) THEN BOOLEAN ELSE {TRUE}) :
        LET e == executeTool(decision.toolName, decision.arguments, out, varsOk)
        IN  /\ called' = Append(called, decision.toolName)
            /\ result' = e.result
            /\ messages' = IF e.thrown THEN messages \o e.push
                           ELSE messages \o e.push
                                    \o afterExecute(decision.toolName, decision.arguments, e.result)
            /\ failed' = Failed(e.failed, "execute")
            /\ events' = events \o <<Event("execute", "start")>>
                            \o (IF e.thrown THEN << >> ELSE <<Event("execute", "result")>>)
            /\ escaped' = e.thrown
            /\ pc' = IF e.thrown THEN "done" ELSE "loop"
    /\ UNCHANGED <<apart, config, run, iterations, shouldContinue, task, tools, answer, decision, prompt,
                   decides, consulted>>

RunStep == LoopEnter \/ LoopExit \/ AnalyzeStep \/ SearchStep \/ DecideStep \/ RespondStep \/ ExecuteStep

Next == StreamStart \/ RunStep

Spec == Init /\ [][Next]_<<vars, apart>>

\* ============================================================ decision text
\* The text the model answers to the decision prompt is a sequence of
\* tokens: the characters the parser looks at ("{", "}", the double quote,
\* the backslash, "fence_json" and "fence" for three backquotes with and without
\* the word json after them), "x" for any other
\* character, and one token for each member of a JSON object (its key, its
\* colon and its value; "message:quote" is the member's key and the opening
\* quote of its string value).  White space, which the fence pattern and
\* trim() drop, is left out.
MaxText == 5

Chars == {"{", "}", "quote", "backslash", "x", "fence_json", "fence"}

NoMessage == [present |-> FALSE, text |-> << >>]
Message(t) == [present |-> TRUE, text |-> t]

\* the Decision variants: CallTool{toolName, arguments}, Respond{message?}, End
Decisions ==
    {[action |-> "call_tool", toolName |-> "X", arguments |-> Args(k), message |-> NoMessage] :
        k \in {{}, {"q"}}}
    \cup {[action |-> "respond", toolName |-> Absent, arguments |-> NoArgs, message |-> m] :
            m \in {NoMessage, Message(<<"x">>), Message(<<"x", "fence", "x">>)}}
    \cup {[action |-> "end", toolName |-> Absent, arguments |-> NoArgs, message |-> NoMessage]}

\* the JSON object of a decision, its tool name under the given key
DecisionObject(d, key) ==
    [action |-> d.action,
     tool_name |-> IF key = "tool_name" THEN d.toolName ELSE Absent,
     toolName |-> IF key = "toolName" THEN d.toolName ELSE Absent,
     arguments |-> d.arguments, message |-> d.message]

EmptyObject ==
    [action |-> Absent, tool_name |-> Absent, toolName |-> Absent, arguments |-> NoArgs,
     message |-> NoMessage]

JsonObjects ==
    {DecisionObject(d, key) : d \in Decisions, key \in {"tool_name", "toolName"}} \cup {EmptyObject}

Member(key, v) == IF v = Absent THEN << >> ELSE <<key \o ":" \o v>>

ArgumentsMember(ar) ==
    IF ~ar.present THEN << >>
    ELSE IF ar.keys = {} THEN <<"arguments:{}">> ELSE <<"arguments:{q}">>

MessageMember(m) == IF m.present THEN <<"message:quote">> \o m.text \o <<"quote">> ELSE << >>

\* JSON.stringify of an object
stringify(o) ==
    <<"{">> \o Member("action", o.action) \o Member("tool_name", o.tool_name)
        \o Member("toolName", o.toolName) \o ArgumentsMember(o.arguments)
        \o MessageMember(o.message) \o <<"}">>

IsJsonString(s) ==
    /\ Len(s) >= 2
    /\ s[1] = "quote" /\ s[Len(s)] = "quote"
    /\ \A i \in 2..(Len(s) - 1) : s[i] \in {"x", "{", "}", "fence", "fence_json"}

\* JSON.parse: the object whose text this is, a string value, or a SyntaxError
JsonParse(s) ==
    IF \E o \in JsonObjects : stringify(o) = s
    THEN [ok |-> TRUE, kind |-> "object", value |-> CHOOSE o \in JsonObjects : stringify(o) = s]
    ELSE IF IsJsonString(s) THEN [ok |-> TRUE, kind |-> "string", value |-> EmptyObject]
    ELSE [ok |-> FALSE, kind |-> "none", value |-> EmptyObject]

IndexesOf(s, toks) == {i \in 1..Len(s) : s[i] \in toks}
Min(S) == CHOOSE i \in S : \A j \in S : i <= j

\* the code block pattern of response.match: the first "fence_json" and the
\* nearest "fence" after it, which a further "fence_json" also begins with
codeBlockMatch(response) ==
    LET opens == IndexesOf(response, {"fence_json"})
    IN  IF opens = {} THEN [found |-> FALSE, inner |-> << >>]
        ELSE LET closes == {j \in IndexesOf(response, {"fence", "fence_json"}) : j > Min(opens)}
             IN  IF closes = {} THEN [found |-> FALSE, inner |-> << >>]
                 ELSE [found |-> TRUE, inner |-> SubSeq(response, Min(opens) + 1, Min(closes) - 1)]

\* a member token that opens a string without closing it
OpensString(tok) == tok \in {"quote", "message:quote"}

RECURSIVE matchingBraceInStrings(_, _, _, _, _)
matchingBraceInStrings(response, i, depth, inString, escape) ==
    IF i > Len(response) THEN 0
    ELSE IF response[i] = "{" THEN matchingBraceInStrings(response, i + 1, depth + 1, inString, FALSE)
    ELSE IF response[i] = "}"
    THEN IF depth - 1 = 0 THEN i
         ELSE matchingBraceInStrings(response, i + 1, depth - 1, inString, FALSE)
    ELSE matchingBraceInStrings(response, i + 1, depth, inString, FALSE)

\* the loop that counts braces from firstBrace on: the index of the brace
\* that closes it, 0 when there is none
RECURSIVE matchingBrace(_, _, _, _, _)
matchingBrace(response, i, depth, inString, escape) ==
    IF i > Len(response) THEN 0
    ELSE IF escape THEN matchingBrace(response, i + 1, depth, inString, FALSE)
    ELSE IF response[i] = "backslash" THEN matchingBrace(response, i + 1, depth, inString, TRUE)
    ELSE IF OpensString(response[i]) THEN matchingBrace(response, i + 1, depth, ~inString, FALSE)
    ELSE IF ~inString /\ response[i] = "{"
    THEN matchingBrace(response, i + 1, depth + 1, inString, FALSE)
    ELSE IF ~inString /\ response[i] = "}"
    THEN IF depth - 1 = 0 THEN i
         ELSE matchingBrace(response, i + 1, depth - 1, inString, FALSE)
    ELSE matchingBrace(response, i + 1, depth, inString, FALSE)

\* jsonStr: the text handed to JSON.parse, or none
extractJson(response) ==
    LET block == codeBlockMatch(response)
        braces == IndexesOf(response, {"{"})
    IN  IF block.found THEN [found |-> block.inner # << >>, jsonStr |-> block.inner]
        ELSE IF braces = {} THEN [found |-> FALSE, jsonStr |-> << >>]
        ELSE LET close == matchingBrace(response, Min(braces), 0, FALSE, FALSE)
             IN  IF close = 0 THEN [found |-> FALSE, jsonStr |-> << >>]
                 ELSE [found |-> TRUE, jsonStr |-> SubSeq(response, Min(braces), close)]

ParsedDecision(action, toolName, arguments, message) ==
    [raised |-> FALSE, action |-> action, toolName |-> toolName, arguments |-> arguments,
     message |-> message]

\* return { action: "respond" }
respondDefault == ParsedDecision("respond", Absent, NoArgs, NoMessage)

\* catch (jsonError) { return { action: "respond", message: response }; }
parseCatch(response) == ParsedDecision("respond", Absent, NoArgs, Message(response))

\* the decision decideAction makes of the model's text, before it validates
\* the arguments of a call_tool
parseDecision(response) ==
    LET ex == extractJson(response)
        parsed == JsonParse(ex.jsonStr)
    IN  IF ~ex.found THEN respondDefault
        ELSE IF ~parsed.ok THEN parseCatch(response)
        ELSE IF parsed.kind = "string" THEN ParsedDecision(Absent, Absent, NoArgs, NoMessage)
        ELSE ParsedDecision(endToRespond(parsed.value.action),
                            normalizeToolName(parsed.value.tool_name, parsed.value.toolName),
                            parsed.value.arguments, parsed.value.message)

\* ================================================================ UtcpAgent
\* UtcpAgent (src/unnamed/part_006): the decide_action node, the routing
\* after it and the execute_tools node of the LangGraph workflow.
NoDecisionData == [action |-> Absent, tool_name |-> Absent, toolName |-> Absent, arguments |-> NoArgs]

\* decideAction(state), given the model's answer: nextAction and decisionData
utcpDecideAction(iterationCount, out) ==
    IF iterationCount >= maxIterations
    THEN [nextAction |-> "respond", decisionData |-> [NoDecisionData EXCEPT !.action = "respond"]]
    ELSE IF out.kind \in {"throw", "nojson", "badjson"}
    THEN [nextAction |-> "respond", decisionData |-> [NoDecisionData EXCEPT !.action = "respond"]]
    ELSE [nextAction |-> IF out.action = Absent THEN "respond" ELSE out.action,
          decisionData |-> [action |-> out.action, tool_name |-> out.tool_name,
                            toolName |-> out.toolName, arguments |-> out.arguments]]

\* the node the conditional edge leads to
routeDecision(nextAction) ==
    CASE nextAction = "call_tool" -> "execute_tools"
      [] nextAction \in {"respond", Absent} -> "respond"
      [] nextAction = "end" -> "END"
      [] OTHER -> "unrouted"

\* executeTools(state): the name handed to utcpClient.callTool, none when
\* decisionData has no toolName
utcpExecuteTools(decisionData) ==
    IF ~Truthy(decisionData.toolName)
    THEN [calledTool |-> Absent, nextAction |-> "respond", turn |-> "Error: No tool specified"]
    ELSE [calledTool |-> decisionData.toolName, nextAction |-> "analyze_task", turn |-> "Tool called"]

\* =========================================================== function level
\* Units: one function of the agent, applied once to arguments drawn from a
\* bounded set.
Texts == UNION {[1..n -> Chars] : n \in 0..MaxText}

Fenced(s) == <<"fence_json">> \o s \o <<"fence">>

\* the texts parseDecision is applied to: every text of up to MaxText
\* characters, and every JSON object on its own, in a code fence, and
\* between stray prose
ParseInputs ==
    Texts \cup {stringify(o) : o \in JsonObjects} \cup {Fenced(stringify(o)) : o \in JsonObjects}
          \cup {<<"x">> \o stringify(o) \o <<"x">> : o \in JsonObjects}

UtcpInputs == {[answer |-> out, iterationCount |-> i] : out \in DecideOutcomes, i \in 0..MaxIter}

MaxTools == 2

\* the arguments validateToolArguments is applied to
ValidateInputs ==
    {[toolName |-> n, args |-> a, tools |-> ts] :
        n \in {"X", "Y", "W", "Z", "", Absent},
        a \in SUBSET {"q", "p"},
        ts \in UNION {[1..k -> {ToolX, ToolY, ToolW}] : k \in 0..MaxTools}}

MaxHistory == 4

\* the turns a conversation is made of
Turns ==
    {SystemMessage(SystemPromptLen), HumanMessage("user_input", Absent, UserInputLen),
     AIMessage("tool_called", "X", 40), HumanMessage("tool_result", Absent, 33)}

\* the conversations summarizeContext is applied to, and what the
\* summarizing invocation does
SummarizeInputs ==
    {[msgs |-> ms, out |-> o] :
        ms \in UNION {[1..n -> Turns] : n \in 0..MaxHistory}, o \in LLMOutcomes}

\* the results stream builds a result turn from: a string with some
\* character other than white space, or a string of white space only, of
\* every length up to a few characters past four times the threshold
ResultInputs ==
    {[kind |-> "text", len |-> n, detail |-> Absent, named |-> FALSE] :
        n \in 1..(4 * SmallThreshold + 7)}
    \cup {[kind |-> "blank", len |-> n, detail |-> Absent, named |-> FALSE] :
            n \in 0..(4 * SmallThreshold + 7)}

\* the agent as constructed, no stream call made
Constructed ==
    /\ maxIterations \in 1..MaxIter
    /\ summarizeThreshold = SmallThreshold
    /\ messages = << >>
    /\ pc = "idle"
    /\ run = 0
    /\ iterations = 0
    /\ shouldContinue = FALSE
    /\ task = Absent
    /\ tools = << >>
    /\ answer = NoAnswer
    /\ decision = NoDecision
    /\ result = NoResult
    /\ events = << >>
    /\ prompt = << >>
    /\ called = << >>
    /\ decides = 0
    /\ consulted = 0
    /\ failed = {}
    /\ escaped = FALSE

UnitsInit ==
    /\ Constructed
    /\ maxIterations = MaxIter
    /\ calls = << >>
    /\ app = ChatStore
    /\ applied = FALSE
    /\ output = << >>
    /\ \/ unit = "parse" /\ input \in ParseInputs
       \/ unit = "utcp" /\ input \in UtcpInputs
       \/ unit = "validate" /\ input \in ValidateInputs
       \/ unit = "summarize" /\ input \in SummarizeInputs
       \/ unit = "result" /\ input \in ResultInputs

ParseStep ==
    /\ unit = "parse" /\ ~applied
    /\ output' = parseDecision(input)
    /\ applied' = TRUE
    /\ UNCHANGED <<vars, unit, input, calls, app>>

UtcpDecideStep ==
    /\ unit = "utcp" /\ ~applied
    /\ LET d == utcpDecideAction(input.iterationCount, input.answer)
       IN  output' = [node |-> routeDecision(d.nextAction), nextAction |-> d.nextAction,
                      decisionData |-> d.decisionData, calledTool |-> Absent, turn |-> Absent]
    /\ applied' = TRUE
    /\ UNCHANGED <<vars, unit, input, calls, app>>

UtcpExecuteStep ==
    /\ unit = "utcp" /\ applied
    /\ output.node = "execute_tools"
    /\ LET e == utcpExecuteTools(output.decisionData)
       IN  output' = [output EXCEPT !.node = "executed", !.nextAction = e.nextAction,
                                    !.calledTool = e.calledTool, !.turn = e.turn]
    /\ UNCHANGED <<vars, unit, input, applied, calls, app>>

ValidateStep ==
    /\ unit = "validate" /\ ~applied
    /\ output' = validateToolArguments(input.toolName, input.args, input.tools)
    /\ applied' = TRUE
    /\ UNCHANGED <<vars, unit, input, calls, app>>

SummarizeStep ==
    /\ unit = "summarize" /\ ~applied
    /\ output' = summarizeContext(input.msgs, input.out)
    /\ applied' = TRUE
    /\ UNCHANGED <<vars, unit, input, calls, app>>

ResultStep ==
    /\ unit = "result" /\ ~applied
    /\ output' = resultTurn(input)
    /\ applied' = TRUE
    /\ UNCHANGED <<vars, unit, input, calls, app>>

UnitsNext ==
    ParseStep \/ UtcpDecideStep \/ UtcpExecuteStep \/ ValidateStep \/ SummarizeStep \/ ResultStep

Units == UnitsInit /\ [][UnitsNext]_<<vars, apart>>

\* ========================================================= overlapping calls
\* Two stream(userInput) calls on one instance.  this.messages and the
\* configuration belong to the instance; iterations, shouldContinue, task,
\* tools, decision and result are locals of each call.  A call is suspended
\* at each yield until its consumer asks for the next step and at each await
\* until the awaited capability settles; between two suspensions its code
\* runs without interruption.  calls[c].pc names the suspension the call is
\* at, calls[c].prompt is the last list of messages it sent to the model and
\* calls[c].mine holds the positions in messages of the turns it appended.
\* the two calls
CallIds == {1, 2}

\* summarizeThreshold: config?.summarizeThreshold || 80000
DefaultThreshold == 80000

\* the variables of the single-call and function-level specifications
alone == <<pc, run, iterations, shouldContinue, task, tools, answer, decision, result,
           events, prompt, called, decides, consulted, failed, escaped,
           unit, input, output, applied, app>>

NotStarted ==
    [pc |-> "idle", iterations |-> 0, shouldContinue |-> FALSE, task |-> Absent,
     tools |-> << >>, decision |-> NoDecision, result |-> NoResult, prompt |-> << >>,
     mine |-> {}]

OverlapInit ==
    /\ maxIterations \in 1..MaxIter
    /\ summarizeThreshold = DefaultThreshold
    /\ messages = << >>
    /\ pc = "idle"
    /\ run = 0
    /\ iterations = 0
    /\ shouldContinue = FALSE
    /\ task = Absent
    /\ tools = << >>
    /\ answer = NoAnswer
    /\ decision = NoDecision
    /\ result = NoResult
    /\ events = << >>
    /\ prompt = << >>
    /\ called = << >>
    /\ decides = 0
    /\ consulted = 0
    /\ failed = {}
    /\ escaped = FALSE
    /\ unit = "overlap"
    /\ input = << >>
    /\ output = << >>
    /\ applied = FALSE
    /\ calls = [c \in CallIds |-> NotStarted]
    /\ app = ChatStore

\* what the capabilities answer while the two calls overlap: the model and
\* the search succeed, the decision is a valid call, a call that fails
\* validation or a respond, and the tool returns text or rejects a parameter
Succeeded == [ok |-> TRUE, len |-> 12]

OverlapDecideOutcomes ==
    {o \in DecideOutcomes :
        /\ o.kind = "json"
        /\ <<o.action, o.tool_name, o.toolName, o.arguments>>
              \in { <<"call_tool", "X", Absent, Args({"q"})>>,
                    <<"call_tool", "X", Absent, Args({})>>,
                    <<"respond", Absent, Absent, NoArgs>> }}

OverlapToolOutcomes ==
    {o \in ToolOutcomes : (o.ok /\ o.kind = "text") \/ (o.missingRequired /\ o.parameter /\ o.named)}

\* the positions of the turns appended to msgs to give after
Appended(msgs, after) == (Len(msgs) + 1)..Len(after)

runnableAlone(cs, c) ==
    /\ cs[c].pc # "done"
    /\ \A o \in CallIds \ {c} : cs[o].pc \in {"idle", "done"}

\* stream takes no lock: a call that has not returned runs on from its
\* suspension whatever the other call is doing
runnable(cs, c) == cs[c].pc # "done"

\* while (shouldContinue && iterations < maxIterations) { iterations++;
\* yield analyze ... }, or the generator returns
loopTest(l) ==
    IF l.shouldContinue /\ l.iterations < maxIterations
    THEN [l EXCEPT !.iterations = nextIteration(l.iterations), !.pc = "analyze_start"]
    ELSE [l EXCEPT !.pc = "done"]

\* the first request for a step: the conversation is rebuilt with the new
\* user input, and the call stops at the first yield
OStart(c) ==
    /\ runnable(calls, c) /\ calls[c].pc = "idle"
    /\ messages' = withUserInput(messages)
    /\ calls' = [calls EXCEPT ![c] =
                    loopTest([NotStarted EXCEPT !.shouldContinue = TRUE,
                                                !.mine = {Len(withUserInput(messages))}])]
    /\ UNCHANGED <<config, alone>>

\* a yield that is followed by another yield or by an await of the search
OYield(c) ==
    /\ runnable(calls, c)
    /\ calls[c].pc \in {"analyze_yield", "search_start", "search_yield"}
    /\ calls' = [calls EXCEPT ![c].pc =
                    CASE calls[c].pc = "analyze_yield" -> "search_start"
                      [] calls[c].pc = "search_start" -> "search_await"
                      [] OTHER -> "decide_start"]
    /\ UNCHANGED <<config, alone, messages>>

\* analyzeTask up to await this.callLLM(...)
OAnalyze(c) ==
    /\ runnable(calls, c) /\ calls[c].pc = "analyze_start"
    /\ calls' = [calls EXCEPT ![c].prompt = processedMessages(analyzePrompt(messages, Succeeded).msgs),
                              ![c].pc = "analyze_await"]
    /\ UNCHANGED <<config, alone, messages>>

\* the model answered: analyzeTask returns and stream yields the task
OAnalyzed(c) ==
    /\ runnable(calls, c) /\ calls[c].pc = "analyze_await"
    /\ calls' = [calls EXCEPT ![c].task = analyzeTask(Succeeded).task, ![c].pc = "analyze_yield"]
    /\ UNCHANGED <<config, alone, messages>>

\* the search settled: stream yields the tools
OSearched(c) ==
    /\ runnable(calls, c) /\ calls[c].pc = "search_await"
    /\ calls' = [calls EXCEPT ![c].tools = searchTools([ok |-> TRUE, tools |-> <<ToolX, ToolY>>]).tools,
                              ![c].pc = "search_yield"]
    /\ UNCHANGED <<config, alone, messages>>

\* decideAction up to await this.callLLM(...); at the iteration limit it
\* returns at once and the await in stream is the suspension
ODecide(c) ==
    /\ runnable(calls, c) /\ calls[c].pc = "decide_start"
    /\ calls' = [calls EXCEPT
                    ![c].prompt =
                        IF iterationLimitReached(calls[c].iterations) THEN calls[c].prompt
                        ELSE processedMessages(
                                decidePrompt(messages, calls[c].task, calls[c].tools, Succeeded).msgs),
                    ![c].pc = "decide_await"]
    /\ UNCHANGED <<config, alone, messages>>

\* the model answered: the rest of decideAction, and stream yields the decision
ODecided(c) ==
    /\ runnable(calls, c) /\ calls[c].pc = "decide_await"
    /\ \E out \in Consulted(calls[c].iterations, OverlapDecideOutcomes) :
        LET d == decideAction(calls[c].tools, calls[c].iterations, out)
        IN  /\ messages' = messages \o d.push
            /\ calls' = [calls EXCEPT
                            ![c].decision = d.decision,
                            ![c].mine = calls[c].mine \cup Appended(messages, messages \o d.push),
                            ![c].pc = "decide_yield"]
    /\ UNCHANGED <<config, alone>>

\* the branch on decision.action, up to the yield it begins with
OBranch(c) ==
    /\ runnable(calls, c) /\ calls[c].pc = "decide_yield"
    /\ calls' = [calls EXCEPT ![c] =
                    CASE streamBranch(calls[c].decision.action) = "respond" ->
                            [calls[c] EXCEPT !.pc = "respond_start"]
                      [] streamBranch(calls[c].decision.action) = "execute" ->
                            [calls[c] EXCEPT !.pc = "execute_start"]
                      [] OTHER -> loopTest([calls[c] EXCEPT !.shouldContinue = FALSE])]
    /\ UNCHANGED <<config, alone, messages>>

\* generateResponse up to await this.callLLM(...)
ORespond(c) ==
    /\ runnable(calls, c) /\ calls[c].pc = "respond_start"
    /\ calls' = [calls EXCEPT ![c].prompt = processedMessages(respondPrompt(messages, Succeeded).msgs),
                              ![c].pc = "respond_await"]
    /\ UNCHANGED <<config, alone, messages>>

\* the model answered: stream yields the response
OResponded(c) ==
    /\ runnable(calls, c) /\ calls[c].pc = "respond_await"
    /\ calls' = [calls EXCEPT ![c].pc = "respond_yield"]
    /\ UNCHANGED <<config, alone, messages>>

\* shouldContinue = false, and the loop condition is tested again
OFinish(c) ==
    /\ runnable(calls, c) /\ calls[c].pc = "respond_yield"
    /\ calls' = [calls EXCEPT ![c] = loopTest([calls[c] EXCEPT !.shouldContinue = FALSE])]
    /\ UNCHANGED <<config, alone, messages>>

\* executeTool up to await this.utcpClient.callTool(...)
OExecute(c) ==
    /\ runnable(calls, c) /\ calls[c].pc = "execute_start"
    /\ calls' = [calls EXCEPT ![c].pc = "execute_await"]
    /\ UNCHANGED <<config, alone, messages>>

\* the tool settled: the rest of executeTool, and stream yields the result
OExecuted(c) ==
    /\ runnable(calls, c) /\ calls[c].pc = "execute_await"
    /\ \E out \in OverlapToolOutcomes :
        LET e == executeTool(calls[c].decision.toolName, calls[c].decision.arguments, out, TRUE)
        IN  /\ messages' = messages \o e.push
            /\ calls' = [calls EXCEPT
                            ![c].result = e.result,
                            ![c].mine = calls[c].mine \cup Appended(messages, messages \o e.push),
                            ![c].pc = "execute_yield"]
    /\ UNCHANGED <<config, alone>>

\* the turns stream appends after the execute step, and the loop condition
OAfterExecute(c) ==
    /\ runnable(calls, c) /\ calls[c].pc = "execute_yield"
    /\ LET after == messages \o afterExecute(calls[c].decision.toolName,
                                             calls[c].decision.arguments, calls[c].result)
       IN  /\ messages' = after
           /\ calls' = [calls EXCEPT ![c] =
                           loopTest([calls[c] EXCEPT !.mine = calls[c].mine \cup Appended(messages, after)])]
    /\ UNCHANGED <<config, alone>>

CallStep(c) ==
    \/ OStart(c) \/ OYield(c) \/ OAnalyze(c) \/ OAnalyzed(c) \/ OSearched(c)
    \/ ODecide(c) \/ ODecided(c) \/ OBranch(c) \/ ORespond(c) \/ OResponded(c)
    \/ OFinish(c) \/ OExecute(c) \/ OExecuted(c) \/ OAfterExecute(c)

OverlapNext == \E c \in CallIds : CallStep(c)

Overlap == OverlapInit /\ [][OverlapNext]_<<vars, apart>>

\* ============================================================= side by side
\* One stream call on a SimplifiedUtcpAgent and one on a UtcpAgent
\* (src/unnamed/part_006), configured with the same maxIterations and given
\* the same answers by the model, the tool search and the tool: input holds
\* what the capabilities answer in the current analyze / search / decide
\* cycle, which both agents go through before the next cycle's answers are
\* drawn.  calls[a] holds the locals of agent a, the phases it entered
\* (phases), the tools it called (called) and whether it gave a final
\* response (response).  The conversations are left out: at the default
\* threshold nothing is summarized, and no branch of either agent depends on
\* the stored turns.
Agents == {"simplified", "utcp"}

NoCycle == [analyze |-> Succeeded, search |-> [ok |-> FALSE, tools |-> << >>],
            decide |-> NoAnswer, tool |-> NoResult, respond |-> Succeeded]

\* what the model answers to a decision prompt in a cycle
TwinDecideOutcomes ==
    {o \in DecideOutcomes :
        \/ o.kind \in {"throw", "nojson"}
        \/ /\ o.kind = "json"
           /\ <<o.action, o.tool_name, o.toolName, o.arguments>>
                 \in { <<"call_tool", "X", Absent, Args({"q"})>>,
                       <<"call_tool", Absent, "X", Args({"q"})>>,
                       <<"call_tool", "Z", Absent, Args({"q"})>>,
                       <<"respond", Absent, Absent, NoArgs>>,
                       <<"end", Absent, Absent, NoArgs>>,
                       <<Absent, Absent, Absent, NoArgs>> }}

\* what the tool does in a cycle: text, a parameter error, a variable error
TwinToolOutcomes ==
    {o \in ToolOutcomes :
        \/ o.ok /\ o.kind = "text"
        \/ o.missingRequired /\ o.parameter /\ o.named
        \/ o.variable /\ ~o.missingRequired /\ ~o.parameter}

TwinCycles ==
    {[analyze |-> a, search |-> s, decide |-> d, tool |-> t, respond |-> Succeeded] :
        a \in LLMOutcomes, s \in {o \in SearchOutcomes : ~o.ok \/ o.tools # << >>},
        d \in TwinDecideOutcomes, t \in TwinToolOutcomes}

AgentStart ==
    [pc |-> "ready", iterations |-> 0, shouldContinue |-> TRUE, task |-> Absent,
     tools |-> << >>, nextAction |-> Absent, decision |-> NoDecision,
     phases |-> << >>, called |-> << >>, response |-> FALSE]

\* the test of stream's loop condition: the next cycle, or the return
nextCycle(l) == [loopTest(l) EXCEPT !.pc = IF @ = "analyze_start" THEN "ready" ELSE @]

TwinInit ==
    /\ maxIterations \in 1..MaxIter
    /\ summarizeThreshold = DefaultThreshold
    /\ messages = << >>
    /\ pc = "idle"
    /\ run = 0
    /\ iterations = 0
    /\ shouldContinue = FALSE
    /\ task = Absent
    /\ tools = << >>
    /\ answer = NoAnswer
    /\ decision = NoDecision
    /\ result = NoResult
    /\ events = << >>
    /\ prompt = << >>
    /\ called = << >>
    /\ decides = 0
    /\ consulted = 0
    /\ failed = {}
    /\ escaped = FALSE
    /\ unit = "twin"
    /\ input = NoCycle
    /\ output = << >>
    /\ applied = FALSE
    /\ calls = [a \in Agents |->
                  IF a = "simplified" THEN nextCycle(AgentStart)
                  ELSE [AgentStart EXCEPT !.decision = NoDecisionData]]
    /\ app = ChatStore

TwinFrame == <<vars, unit, output, applied, app>>

Entered(l, phase) == [l EXCEPT !.phases = Append(l.phases, phase)]

\* the capabilities' answers of the next cycle, once every agent that has
\* not returned is at the start of a cycle
TwinCycle ==
    /\ \A a \in Agents : calls[a].pc \in {"ready", "done"}
    /\ \E a \in Agents : calls[a].pc = "ready"
    /\ input' \in TwinCycles
    /\ calls' = [a \in Agents |->
                    IF calls[a].pc = "ready" THEN [calls[a] EXCEPT !.pc = "analyze"] ELSE calls[a]]
    /\ UNCHANGED TwinFrame

\* ---- SimplifiedUtcpAgent
SimplifiedAnalyze ==
    /\ calls["simplified"].pc = "analyze"
    /\ calls' = [calls EXCEPT !["simplified"] =
                    [Entered(@, "analyze") EXCEPT !.task = analyzeTask(input.analyze).task,
                                                  !.pc = "search"]]
    /\ UNCHANGED <<TwinFrame, input>>

SimplifiedSearch ==
    /\ calls["simplified"].pc = "search"
    /\ calls' = [calls EXCEPT !["simplified"] =
                    [Entered(@, "search") EXCEPT !.tools = searchTools(input.search).tools,
                                                 !.pc = "decide"]]
    /\ UNCHANGED <<TwinFrame, input>>

SimplifiedDecide ==
    /\ calls["simplified"].pc = "decide"
    /\ LET l == calls["simplified"]
           d == decideAction(l.tools, l.iterations, input.decide)
           branch == streamBranch(d.decision.action)
       IN  calls' = [calls EXCEPT !["simplified"] =
                        IF branch = "loop"
                        THEN nextCycle([Entered(l, "decide") EXCEPT !.decision = d.decision,
                                                                    !.shouldContinue = FALSE])
                        ELSE [Entered(l, "decide") EXCEPT !.decision = d.decision, !.pc = branch]]
    /\ UNCHANGED <<TwinFrame, input>>

SimplifiedExecute ==
    /\ calls["simplified"].pc = "execute"
    /\ LET l == calls["simplified"]
           e == executeTool(l.decision.toolName, l.decision.arguments, input.tool, TRUE)
       IN  calls' = [calls EXCEPT !["simplified"] =
                        nextCycle([Entered(l, "execute") EXCEPT
                                      !.called = Append(l.called, l.decision.toolName)])]
    /\ UNCHANGED <<TwinFrame, input>>

SimplifiedRespond ==
    /\ calls["simplified"].pc = "respond"
    /\ LET l == calls["simplified"]
           r == generateResponse(input.respond)
       IN  calls' = [calls EXCEPT !["simplified"] =
                        nextCycle([Entered(l, "respond") EXCEPT !.response = TRUE,
                                                                 !.shouldContinue = FALSE])]
    /\ UNCHANGED <<TwinFrame, input>>

\* ---- UtcpAgent
\* analyzeTask(state), given what llm.invoke does
utcpAnalyzeTask(out) ==
    IF out.ok THEN [currentTask |-> "task", nextAction |-> "search_tools", appended |-> 2]
    ELSE [currentTask |-> "Unknown task", nextAction |-> "respond", appended |-> 0]

\* searchTools(state), given what utcpClient.searchTools does
utcpSearchTools(out) ==
    IF out.ok THEN [availableTools |-> out.tools, nextAction |-> "decide_action"]
    ELSE [availableTools |-> << >>, nextAction |-> "decide_action"]

\* respond(state): finalResponse is set whether llm.invoke returns or throws
utcpRespond(out) == [finalResponse |-> IF out.ok THEN "text" ELSE "error_text"]

\* the edge from analyze_task leads to search_tools whatever nextAction says
UtcpAnalyze ==
    /\ calls["utcp"].pc = "analyze"
    /\ LET a == utcpAnalyzeTask(input.analyze)
       IN  calls' = [calls EXCEPT !["utcp"] =
                        [Entered(@, "analyze") EXCEPT !.task = a.currentTask,
                                                      !.nextAction = a.nextAction,
                                                      !.pc = "search"]]
    /\ UNCHANGED <<TwinFrame, input>>

UtcpSearch ==
    /\ calls["utcp"].pc = "search"
    /\ LET s == utcpSearchTools(input.search)
       IN  calls' = [calls EXCEPT !["utcp"] =
                        [Entered(@, "search") EXCEPT !.tools = s.availableTools,
                                                     !.nextAction = s.nextAction,
                                                     !.pc = "decide"]]
    /\ UNCHANGED <<TwinFrame, input>>

\* decide_action and the conditional edge behind it
UtcpDecide ==
    /\ calls["utcp"].pc = "decide"
    /\ LET l == calls["utcp"]
           d == utcpDecideAction(l.iterations, input.decide)
           node == routeDecision(d.nextAction)
       IN  calls' = [calls EXCEPT !["utcp"] =
                        [Entered(l, "decide") EXCEPT
                            !.iterations = IF l.iterations >= maxIterations THEN @ ELSE @ + 1,
                            !.nextAction = d.nextAction,
                            !.decision = d.decisionData,
                            !.pc = CASE node = "execute_tools" -> "execute"
                                     [] node = "respond" -> "respond"
                                     [] OTHER -> "done"]]
    /\ UNCHANGED <<TwinFrame, input>>

\* execute_tools; its edge leads back to analyze_task whatever nextAction says
UtcpExecute ==
    /\ calls["utcp"].pc = "execute"
    /\ LET l == calls["utcp"]
           e == utcpExecuteTools(l.decision)
       IN  calls' = [calls EXCEPT !["utcp"] =
                        [Entered(l, "execute") EXCEPT
                            !.called = IF e.calledTool = Absent THEN @ ELSE Append(@, e.calledTool),
                            !.nextAction = e.nextAction,
                            !.pc = "ready"]]
    /\ UNCHANGED <<TwinFrame, input>>

UtcpRespond ==
    /\ calls["utcp"].pc = "respond"
    /\ calls' = [calls EXCEPT !["utcp"] =
                    [Entered(@, "respond") EXCEPT
                        !.response = utcpRespond(input.respond).finalResponse # Absent,
                        !.pc = "done"]]
    /\ UNCHANGED <<TwinFrame, input>>

TwinNext ==
    \/ TwinCycle
    \/ SimplifiedAnalyze \/ SimplifiedSearch \/ SimplifiedDecide \/ SimplifiedExecute
    \/ SimplifiedRespond
    \/ UtcpAnalyze \/ UtcpSearch \/ UtcpDecide \/ UtcpExecute \/ UtcpRespond

Twin == TwinInit /\ [][TwinNext]_<<vars, apart>>

\* ============================================================== application
\* handleSendMessage of the App component (src/src/stores/utcpConfigStore.ts)
\* over useChatStore (src/unnamed/part_005).  The agent's stream is any
\* sequence of steps that ends by returning or by throwing.  ChatInput and
\* the Clear button are disabled while isStreaming (src/unnamed/part_000),
\* so that a message is sent, and the conversation cleared, only between
\* two calls.
MaxSends == 3
MaxSteps == 2

\* a message of the chat store: its role and which text it holds
ChatMessage(role, content) == [role |-> role, content |-> content]

\* the steps a stream yields, as far as handleSendMessage looks at them:
\* step, message (a text, the empty text, or none) and data.response
AgentSteps ==
    { [step |-> "analyze", message |-> "note", response |-> Absent],
      [step |-> "decide", message |-> Absent, response |-> Absent],
      [step |-> "respond", message |-> "note", response |-> Absent],
      [step |-> "respond", message |-> "text", response |-> "text"],
      [step |-> "respond", message |-> "", response |-> ""] }

\* addMessage
addMessage(store, message) == [store EXCEPT !.messages = Append(@, message)]

\* finally { setStreaming(false); setCurrentStreamingMessage(""); }
finally(store) ==
    [store EXCEPT !.isStreaming = FALSE, !.currentStreamingMessage = "", !.pc = "idle"]

assistantReplyIfAny(fullResponse) ==
    IF Truthy(fullResponse) THEN <<ChatMessage("assistant", "response")>> ELSE << >>

\* the assistant message added when the stream has returned
assistantReply(fullResponse) ==
    IF Truthy(fullResponse) THEN <<ChatMessage("assistant", "response")>>
    ELSE <<ChatMessage("assistant", "no_response")>>

AppInit ==
    /\ maxIterations \in 1..MaxIter
    /\ summarizeThreshold = DefaultThreshold
    /\ messages = << >>
    /\ pc = "idle"
    /\ run = 0
    /\ iterations = 0
    /\ shouldContinue = FALSE
    /\ task = Absent
    /\ tools = << >>
    /\ answer = NoAnswer
    /\ decision = NoDecision
    /\ result = NoResult
    /\ events = << >>
    /\ prompt = << >>
    /\ called = << >>
    /\ decides = 0
    /\ consulted = 0
    /\ failed = {}
    /\ escaped = FALSE
    /\ unit = "app"
    /\ input = << >>
    /\ output = << >>
    /\ applied = FALSE
    /\ calls = << >>
    /\ app = ChatStore

AppFrame == <<vars, unit, input, output, applied, calls>>

\* initializeAgent: setAgent(newAgent)
InitializeAgent ==
    /\ ~app.agent
    /\ app' = [app EXCEPT !.agent = TRUE]
    /\ UNCHANGED AppFrame

\* handleClear of the Chat component
HandleClear ==
    /\ ~app.isStreaming
    /\ app.messages # << >>
    /\ app' = [app EXCEPT !.messages = << >>, !.currentStreamingMessage = "",
                          !.currentStep = Absent]
    /\ UNCHANGED AppFrame

\* handleSendMessage without an agent
SendWithoutAgent ==
    /\ ~app.isStreaming /\ app.pc = "idle"
    /\ app.sends < MaxSends
    /\ ~app.agent
    /\ app' = [addMessage(app, ChatMessage("assistant", "configure")) EXCEPT !.sends = @ + 1]
    /\ UNCHANGED AppFrame

\* handleSendMessage up to the first request for a step
SendMessage ==
    /\ ~app.isStreaming /\ app.pc = "idle"
    /\ app.sends < MaxSends
    /\ app.agent
    /\ app' = [addMessage(app, ChatMessage("user", "input")) EXCEPT
                  !.isStreaming = TRUE, !.currentStreamingMessage = "",
                  !.fullResponse = "", !.pulled = 0, !.pc = "streaming", !.sends = @ + 1]
    /\ UNCHANGED AppFrame

\* the body of the for await loop, for one step
PullStep ==
    /\ app.pc = "streaming"
    /\ app.pulled < MaxSteps
    /\ \E step \in AgentSteps :
        LET responded == step.step = "respond" /\ Truthy(step.response)
        IN  app' = [app EXCEPT
                       !.pulled = @ + 1,
                       !.currentStep = step.step,
                       !.fullResponse = IF responded THEN step.response ELSE @,
                       !.currentStreamingMessage =
                            IF responded THEN step.response
                            ELSE IF Truthy(step.message) THEN step.message ELSE @]
    /\ UNCHANGED AppFrame

\* the stream returns: the assistant message, and finally
StreamReturns ==
    /\ app.pc = "streaming"
    /\ app' = finally([app EXCEPT !.messages = @ \o assistantReply(app.fullResponse)])
    /\ UNCHANGED AppFrame

\* the stream throws: catch, and finally
StreamThrows ==
    /\ app.pc = "streaming"
    /\ app' = finally(addMessage(app, ChatMessage("assistant", "error")))
    /\ UNCHANGED AppFrame

AppNext ==
    \/ InitializeAgent \/ HandleClear \/ SendWithoutAgent \/ SendMessage
    \/ PullStep \/ StreamReturns \/ StreamThrows

App == AppInit /\ [][AppNext]_<<vars, apart>>

\* ================================================================== claims
IsStart(e) == e.data = "start"

\* the phases this stream call entered so far, in order
Phases == SelectSeq(events, IsStart)

LastEvent == events[Len(events)]

\* a respond event carrying the response text was yielded
RespondEmitted == \E i \in 1..Len(events) : events[i].step = "respond" /\ events[i].data # "start"

Running == pc \notin {"idle", "done"}

\* C1: every run emits a respond event carrying the final text before the
\* event sequence ends; no run ends without a Respond phase.
C1_RunEndsWithRespond == pc = "done" => RespondEmitted

\* C2: within one stream call the iteration counter starts at 0, only ever
\* increases, never exceeds maxIterations, and the decide phase is entered at
\* most maxIterations times.
C2_IterationBound ==
    /\ [](iterations \in 0..maxIterations /\ decides <= maxIterations)
    /\ [][/\ run' = run => iterations' >= iterations
          /\ run' # run => iterations' = 0 /\ decides' = 0]_vars

C2_Witness == maxIterations > 1 /\ iterations = maxIterations /\ decides = maxIterations /\ pc = "done"

\* where a run may be right after a phase in which a capability failed: in a
\* further phase, or past the Respond phase with the response yielded
GoesOn ==
    \/ pc \in {"search", "decide", "respond"}
    \/ pc = "loop" /\ (loopCondition \/ (LastEvent.step = "respond" /\ LastEvent.data # "start"))

PhaseRank ==
    CASE pc = "analyze" -> 5
      [] pc = "search" -> 4
      [] pc = "decide" -> 3
      [] pc \in {"execute", "respond"} -> 2
      [] pc = "loop" -> 1
      [] OTHER -> 0

\* the steps a run has left at most
Measure == 6 * (maxIterations - iterations) + PhaseRank

AnalyzeCount == Len(SelectSeq(Phases, LAMBDA e : e.step = "analyze"))

\* C4: every run terminates: each step of a run lowers a natural-number
\* measure, a run that has not ended can always take a step, and the event
\* sequence holds at most maxIterations analyze/search/decide cycles.
C4_Terminates ==
    /\ [][run' = run => Measure' < Measure /\ Measure' >= 0]_vars
    /\ [](Running => ENABLED RunStep)
    /\ [](AnalyzeCount <= maxIterations /\ Len(events) <= 8 * maxIterations)

C4_Witness ==
    /\ pc = "done"
    /\ maxIterations > 1
    /\ AnalyzeCount = maxIterations
    /\ Len(called) = maxIterations - 1

LastTurn == messages[Len(messages)]

\* the model answered call_tool, and the tool it names is not among this
\* iteration's search results or lacks a required parameter
CallToolRejected ==
    /\ answer.kind = "json"
    /\ answer.action = "call_tool"
    /\ LET name == IF Truthy(answer.tool_name) THEN answer.tool_name ELSE answer.toolName
       IN  \/ name \notin ToolNames(tools)
           \/ \E i \in 1..Len(tools) :
                 tools[i].name = name /\ tools[i].inputs.required \ ArgKeys(answer.arguments) # {}

VariableFailure ==
    /\ pc = "loop"
    /\ result.kind = "error"
    /\ result.detail \in {"required_variables", "variable_message"}

\* C6: when a tool execution fails with a missing-variable condition the run
\* performs no further analyze/search/decide/execute cycle, however many
\* iterations remain.
C6_VariableFailureIsTerminal == VariableFailure => ~loopCondition

\* the tool execution of this iteration failed with a missing-parameter error
ParameterFailure == result.kind = "error" /\ result.detail = "recoverable"

\* a step in which the tool execution fails with a missing-parameter error
ParameterFailureStep == pc = "execute" /\ ParameterFailure'

\* such a step appends exactly one user-role corrective turn and leaves the
\* run in the loop with iterations to go; the step after it opens the
\* Analyze phase of a new iteration
ParameterRetry ==
    /\ ParameterFailureStep =>
            /\ Len(messages') = Len(messages) + 1
            /\ SubSeq(messages', 1, Len(messages)) = messages
            /\ LastTurn'.role = "human" /\ LastTurn'.kind = "param_error"
            /\ pc' = "loop" /\ loopCondition'
    /\ pc = "loop" /\ ParameterFailure =>
            pc' = "analyze" /\ iterations' = iterations + 1 /\ messages' = messages

\* C7, as stated: when a tool execution fails with a missing-parameter
\* error, exactly one corrective user-role turn naming the missing parameter
\* is appended, the run does not end there, and the next phase is the
\* Analyze phase of a new iteration.
C7_Original ==
    [][/\ ParameterRetry
       /\ ParameterFailureStep => LastTurn'.ref \notin {Absent, "unknown parameter"}]_vars

\* C7, amended: the appended turn names the parameter when the error message
\* has the form "Missing required ...: <name>", and says "unknown parameter"
\* otherwise; the rest as stated.
C7_ParameterRetry ==
    [][/\ ParameterRetry
       /\ ParameterFailureStep =>
            LastTurn'.ref = IF result'.named THEN "q" ELSE "unknown parameter"]_vars

C7_Witness ==
    /\ pc = "analyze"
    /\ iterations = 2
    /\ LastTurn.kind = "param_error"
    /\ LastTurn.ref = "q"

PhaseFollows(a, b) ==
    CASE a = "analyze" -> b = "search"
      [] a = "search" -> b = "decide"
      [] a = "decide" -> b \in {"execute", "respond"}
      [] a = "execute" -> b = "analyze"
      [] OTHER -> FALSE

PhaseSteps == [i \in 1..Len(Phases) |-> Phases[i].step]

\* the first decide phase of the run resolved to respond
FirstDecideRespond ==
    \E i \in 1..Len(events) :
        /\ events[i] = Event("decide", "respond")
        /\ \A j \in 1..(i - 1) : events[j].step # "decide" \/ events[j].data = "start"

C9_ExecutesKnownTool ==
    /\ [](pc = "execute" => Truthy(decision.toolName) /\ decision.toolName \in ToolNames(tools))
    /\ [](\A i \in 1..Len(called) : Truthy(called[i]))
    /\ [][called' # called /\ run' = run =>
            /\ Len(called') = Len(called) + 1
            /\ called'[Len(called')] \in ToolNames(tools)
            /\ tools' = tools]_vars

C9_Witness ==
    /\ pc = "loop"
    /\ answer.tool_name = ""
    /\ called = <<"X">>

\* the model answered end to this iteration's decision prompt
AnsweredEnd == answer.kind = "json" /\ answer.action = "end"

Parsed == unit = "parse" /\ applied

\* some part of the text is the text of a JSON object
ContainsObject(s) ==
    \E i \in 1..Len(s), j \in 1..Len(s) :
        i <= j /\ \E o \in JsonObjects : stringify(o) = SubSeq(s, i, j)

\* C12: the decision parser never raises, and for every text that contains
\* no parsable JSON object (no "{" at all, unbalanced braces, or a span that
\* is not valid JSON) the decision it returns is Respond whose message is
\* that raw text.
C12_NonJsonIsRespondWithText ==
    Parsed /\ ~ContainsObject(input) =>
        /\ ~output.raised
        /\ output.action = "respond"
        /\ output.message = Message(input)

\* ------------------------------------------------------------------ C13
\* the text of decision d, its tool name under key, in a json code fence
FencedDecision(d, key) == Fenced(stringify(DecisionObject(d, key)))

Equivalent(o, d) ==
    /\ ~o.raised
    /\ o.action = d.action
    /\ o.toolName = d.toolName
    /\ o.arguments = d.arguments
    /\ o.message = d.message

HasFence(d) == \E i \in 1..Len(d.message.text) : d.message.text[i] \in {"fence", "fence_json"}

NamedByToolName(a) == a.kind = "json" /\ a.action = "call_tool" /\ Truthy(a.tool_name)

\* C11: in both agents a call_tool decision that names the tool under the
\* key tool_name reaches tool execution with that name: in SimplifiedUtcpAgent
\* the Execute phase is entered with it, in UtcpAgent the execute_tools node
\* hands it to the tool call.
C11_ToolNameReachesExecution ==
    /\ pc = "execute" /\ NamedByToolName(answer) => decision.toolName = answer.tool_name
    /\ unit = "utcp" /\ applied /\ NamedByToolName(input.answer) /\ output.node = "executed"
           => output.calledTool = input.answer.tool_name

\* ------------------------------------------------------------------ C14
\* the reference validator: unknown name, invalid; no input schema, valid;
\* otherwise invalid exactly when a required input name is no key of args
ReferenceVerdict(toolName, args, ts) ==
    IF \A i \in 1..Len(ts) : ts[i].name # toolName
    THEN [valid |-> FALSE, error |-> "not_found", missing |-> {}]
    ELSE LET tool == ts[Min({i \in 1..Len(ts) : ts[i].name = toolName})]
         IN  IF tool.inputs.form = "absent" \/ tool.inputs.required \ args = {}
             THEN [valid |-> TRUE, error |-> Absent, missing |-> {}]
             ELSE [valid |-> FALSE, error |-> "missing", missing |-> tool.inputs.required \ args]

\* C14: validateToolArguments agrees with the reference validator on every
\* tool name, argument mapping and descriptor list: same verdict, same
\* missing names.
C14_AgreesWithReference ==
    unit = "validate" /\ applied =>
        output = ReferenceVerdict(input.toolName, input.args, input.tools)

\* ------------------------------------------------------------------ C15
Summarized == unit = "summarize" /\ applied

\* the positions of the turns of ms that are, or are not, system turns
SystemAt(ms) == {i \in 1..Len(ms) : ms[i].role = "system"}
OthersAt(ms) == {i \in 1..Len(ms) : ms[i].role # "system"}

\* C15: summarizeContext agrees with the reference summarizer: with at most
\* 2 non-system turns the input comes back unchanged; with more, the output
\* is the system turns in order, then one user turn holding the summary when
\* the summarizing call succeeds and nothing when it fails, then the last 2
\* non-system turns unchanged; no error is propagated and the output never
\* has more turns than the input.
C15_AgreesWithReference ==
    Summarized =>
        LET ms == input.msgs
            res == output.msgs
            nsys == Cardinality(SystemAt(ms))
            extra == IF input.out.ok THEN 1 ELSE 0
        IN  /\ ~output.thrown
            /\ Len(res) <= Len(ms)
            /\ Cardinality(OthersAt(ms)) <= 2 => res = ms
            /\ Cardinality(OthersAt(ms)) > 2 =>
                  /\ Len(res) = nsys + extra + 2
                  /\ \A i \in 1..nsys :
                        res[i] = ms[CHOOSE k \in SystemAt(ms) :
                                      Cardinality({j \in SystemAt(ms) : j <= k}) = i]
                  /\ input.out.ok =>
                        /\ res[nsys + 1].role = "human"
                        /\ res[nsys + 1].kind = "summary"
                        /\ res[nsys + 1].len = SummaryPrefixLen + input.out.len
                  /\ \A d \in 0..1 :
                        res[Len(res) - d] =
                            ms[CHOOSE k \in OthersAt(ms) :
                                  Cardinality({j \in OthersAt(ms) : j >= k}) = d + 1]

C15_Witness ==
    /\ Summarized
    /\ Len(input.msgs) = 4 /\ Cardinality(OthersAt(input.msgs)) = 3
    /\ input.msgs[2].role = "system"
    /\ ~input.out.ok
    /\ Len(output.msgs) = 3

\* ------------------------------------------------------------------ C16
\* the analyze prompt as it would be sent without summarizing
UnsummarizedAnalyzePrompt ==
    processedMessages(<<SystemMessage(AnalyzeSystemLen)>> \o SelectSeq(messages, NonSystem)
                          \o <<HumanMessage("next_step", Absent, NextStepLen)>>)

\* the Analyze phase has just sent its prompt to the model
Analyzed == pc = "search"

\* C16: whenever the token estimate of the prospective analyze prompt exceeds
\* summarizeThreshold, the prompt sent to the model has strictly fewer
\* characters than the unsummarized prompt.
C16_SummarizedPromptIsShorter ==
    Analyzed /\ estimateTokenCount(UnsummarizedAnalyzePrompt) > summarizeThreshold =>
        SumLen(prompt) < SumLen(UnsummarizedAnalyzePrompt)

\* ------------------------------------------------------------------ C17
ResultTurned == unit = "result" /\ applied

\* the estimated token cost of a result: its length over 4, floored
ResultCost == input.len \div 4

\* the turn holds the first 100 characters, an ellipsis and the retry hint
IsTruncated(turn) ==
    /\ turn.kind = "truncated_result"
    /\ turn.len = TooLongPrefixLen + TooLongKeep + 3
    /\ turn.len < input.len

\* the turn holds the whole result
IsInFull(turn) == turn.kind = "tool_result" /\ turn.len = ToolResultPrefixLen + input.len

\* C17 as stated: a result whose cost exceeds summarizeThreshold is appended
\* truncated, any result at or below the threshold is appended in full.
C17_Original ==
    ResultTurned =>
        /\ output.role = "human"
        /\ ResultCost > summarizeThreshold => IsTruncated(output)
        /\ ResultCost <= summarizeThreshold => IsInFull(output)

\* C17: a result that is not blank is appended truncated when its cost
\* exceeds summarizeThreshold and in full when it is at or below; a blank
\* result is replaced by the empty-result hint whatever its length.
C17_Truncation ==
    ResultTurned =>
        /\ output.role = "human"
        /\ input.kind # "blank" /\ ResultCost > summarizeThreshold => IsTruncated(output)
        /\ input.kind # "blank" /\ ResultCost <= summarizeThreshold => IsInFull(output)
        /\ input.kind = "blank" => output.kind = "empty_result" /\ output.len = EmptyHintLen

C17_Witness ==
    /\ ResultTurned
    /\ input.kind = "text"
    /\ input.len = 4 * summarizeThreshold + 3
    /\ IsInFull(output)

\* ------------------------------------------------------------------ C18
\* C18: once stream has been called, the first turn of the stored
\* conversation is the system turn and no other turn is a system turn, at
\* every point during and after any sequence of stream calls.
C18_LeadingSystemTurn ==
    pc # "idle" =>
        /\ Len(messages) >= 1
        /\ messages[1] = SystemMessage(SystemPromptLen)
        /\ \A i \in 2..Len(messages) : messages[i].role # "system"

C18_Witness ==
    /\ run = 2 /\ pc = "done"
    /\ Len(messages) = 5
    /\ messages[3].role = "ai" /\ messages[5].role = "human"

\* ------------------------------------------------------------------ C19
\* the model invocation of this iteration's Analyze phase failed
AnalyzeFailed == task = "Unknown task"

\* the model invocation of the Decide phase just completed failed
DecideFailed == "decide" \in failed

\* C19: when a model invocation fails in the Analyze phase or in the Decide
\* phase, the iteration resolves to a Respond action carrying an error
\* message: no tool is executed in that iteration and the run goes to the
\* Respond phase.  Stated here: after a failed analyze invocation the
\* Execute phase is not entered in that iteration, and after a failed decide
\* invocation the Respond phase is next, with an error message.
C19_ModelFailureResponds ==
    /\ AnalyzeFailed => pc # "execute"
    /\ DecideFailed =>
          /\ pc = "respond"
          /\ decision.action = "respond" /\ decision.message # Absent

\* a call is between its first step and its return
InProgress(c) == calls[c].pc \notin {"idle", "done"}

\* the turn at position i of the conversation is in the prompt of call c
InPromptOf(c, i) == i < Len(calls[c].prompt) /\ calls[c].prompt[i] = messages[i]

\* C20: stream takes no lock and the conversation is one list.  Whatever the
\* other call is doing, a call that has not returned can take its next step
\* from the suspension it is at; and the prompt a call sent to the model is,
\* behind its first message and before its last, the conversation as it
\* stood, the turns of both calls in the order they were appended.
C20_NoMutualExclusion ==
    \A c \in CallIds :
        /\ calls[c].pc # "done" => ENABLED CallStep(c)
        /\ \A i \in 2..(Len(calls[c].prompt) - 1) : calls[c].prompt[i] = messages[i]

\* two calls in progress, the second begun after the first, and the first
\* one's prompt holds the user input, a tool call and a tool result that the
\* second appended
C20_Witness ==
    \E c \in CallIds : \E o \in CallIds \ {c} :
        /\ InProgress(c) /\ InProgress(o)
        /\ \E u \in calls[o].mine, t \in calls[o].mine, r \in calls[o].mine :
              /\ messages[u].kind = "user_input" /\ InPromptOf(c, u)
              /\ messages[t].kind = "tool_called" /\ InPromptOf(c, t)
              /\ messages[r].kind = "tool_result" /\ InPromptOf(c, r)
              /\ \E m \in calls[c].mine : m < u

\* ------------------------------------------------------------------ C22
\* C22: when the iteration count passed to decideAction has reached
\* maxIterations the decision is Respond with the maximum-iterations
\* message, whatever the model would answer: the model is not consulted, no
\* argument is validated, no turn is appended, no tool is called and the run
\* goes to the Respond phase; so a run that used up its iterations has
\* yielded a response when it ends.
C22_LimitForcesRespond ==
    /\ [](pc = "decide" /\ iterationLimitReached(iterations) =>
            \A out \in DecideOutcomes :
                LET d == decideAction(tools, iterations, out)
                IN  /\ d.decision = Respond("max_iterations")
                    /\ ~d.consulted /\ ~d.validated /\ d.push = << >>)
    /\ [][pc = "decide" /\ iterationLimitReached(iterations) =>
            /\ decision' = Respond("max_iterations")
            /\ consulted' = consulted /\ called' = called /\ messages' = messages
            /\ pc' = "respond"]_vars
    /\ [](pc = "done" /\ iterations >= maxIterations => RespondEmitted)

C22_Witness ==
    /\ pc = "loop"
    /\ maxIterations > 1 /\ iterations = maxIterations
    /\ decision = Respond("max_iterations")
    /\ consulted = maxIterations - 1
    /\ LastEvent = Event("respond", "text")

\* ------------------------------------------------------------------ C25
\* C25: with maxIterations = N a stream call sends at most N - 1 decision
\* requests to the model and calls the tool at most N - 1 times, the decide
\* of cycle N being forced to Respond; with N = 1 it sends none and calls
\* no tool.
C25_DecisionAndToolBudget ==
    /\ consulted <= maxIterations - 1
    /\ Len(called) <= maxIterations - 1
    /\ maxIterations = 1 => consulted = 0 /\ called = << >>

C25_Witness ==
    /\ pc = "done"
    /\ maxIterations = MaxIter
    /\ consulted = maxIterations - 1
    /\ Len(called) = maxIterations - 1
    /\ RespondEmitted

\* ------------------------------------------------------------------ C27
\* the model answered this iteration's decision prompt with a JSON object
\* that has no action field
AnsweredWithoutAction == answer.kind = "json" /\ answer.action = Absent

\* C27: a decision that parses to a JSON object without an action field is
\* handled as Respond: the decision stream sees has action respond, the run
\* goes to the Respond phase and yields the final response.
C27_NoActionIsRespond ==
    AnsweredWithoutAction =>
        /\ decision.action = "respond"
        /\ pc \in {"respond", "loop"}
        /\ pc = "loop" => LastEvent.step = "respond" /\ LastEvent.data # "start"

\* ------------------------------------------------------------------ C26
\* the tool call of this iteration was rejected, whatever the error
ExecutionFailed == pc = "loop" /\ result.kind = "error"

\* C26: every failed tool execution (missing parameter, missing variable or
\* any other error) has left a turn describing the failure at the end of
\* the stored conversation when the execute step is over, before the next
\* Analyze phase.
C26_FailureIsRecorded ==
    ExecutionFailed => LastTurn.kind = "param_error"

\* ------------------------------------------------------------------ C24
\* C24: when an Analyze phase is over the stored conversation has grown by
\* two turns, the question "The next step is:" and the task the model
\* returned, which are then its last two turns.
C24_AnalyzeAppendsQuestionAndTask ==
    [][pc = "analyze" /\ pc' = "search" =>
          /\ Len(messages') = Len(messages) + 2
          /\ SubSeq(messages', 1, Len(messages)) = messages
          /\ messages'[Len(messages') - 1].kind = "next_step"
          /\ messages'[Len(messages')].role = "ai"]_vars

\* ------------------------------------------------------------------ C28
\* the Respond phase of this run is over
Responded == pc = "loop" /\ events # << >> /\ LastEvent.step = "respond" /\ LastEvent.data # "start"

\* C28: after a run's Respond phase the last turn of the stored
\* conversation is an assistant turn holding the final response.
C28_ResponseIsStored ==
    Responded => LastTurn.role = "ai" /\ LastTurn.kind = "response"

\* ------------------------------------------------------------------ C29
NonSystemTurns(ms) == SelectSeq(ms, NonSystem)

IsPrefix(a, b) == Len(a) <= Len(b) /\ SubSeq(b, 1, Len(a)) = a

HasSummary(ms) == \E i \in 1..Len(ms) : ms[i].kind = "summary"

\* C29: the stored conversation is append-only for the turns other than the
\* system turn.  Every step keeps the earlier ones in their order; a phase
\* that summarizes puts the summary in the prompt it sends and never in the
\* stored conversation, which the Analyze and Respond phases leave as it
\* was; and a stream call adds one user turn behind all earlier ones.
C29_AppendOnly ==
    /\ [][/\ IsPrefix(NonSystemTurns(messages), NonSystemTurns(messages'))
          /\ pc \in {"analyze", "respond"} => messages' = messages
          /\ run' # run =>
                NonSystemTurns(messages') =
                    NonSystemTurns(messages) \o <<HumanMessage("user_input", Absent, UserInputLen)>>]_vars
    /\ [](~HasSummary(messages))

C29_Witness ==
    /\ run = 2
    /\ HasSummary(prompt)
    /\ Len(NonSystemTurns(messages)) > RecentCount
    /\ messages[2].kind = "user_input"
    /\ LastTurn.kind = "user_input"

\* ------------------------------------------------------------------ C23
\* the text holds no json code fence
NoFence(s) == IndexesOf(s, {"fence_json"}) = {}

\* the number of backslashes in a row just before position i, from from on
BackslashRun(s, from, i) ==
    Cardinality({k \in 1..(i - from) : \A j \in (i - k)..(i - 1) : s[j] = "backslash"})

\* position i is the character a backslash escapes
Escaped(s, from, i) == BackslashRun(s, from, i) % 2 = 1

\* position i is a double quote that opens or closes a string literal
QuoteAt(s, from, i) == OpensString(s[i]) /\ ~Escaped(s, from, i)

\* position i lies inside a string literal
InStringAt(s, from, i) == Cardinality({j \in from..(i - 1) : QuoteAt(s, from, j)}) % 2 = 1

\* position i is a brace b that counts for the depth
CountsAt(s, from, i, b) == s[i] = b /\ ~Escaped(s, from, i) /\ ~InStringAt(s, from, i)

DepthAt(s, from, i) ==
    Cardinality({j \in from..i : CountsAt(s, from, j, "{")})
        - Cardinality({j \in from..i : CountsAt(s, from, j, "}")})

\* the span the claim describes: from the first "{" to the first "}" at
\* which the depth is back to zero
ReferenceSpan(s) ==
    IF IndexesOf(s, {"{"}) = {} THEN [found |-> FALSE, jsonStr |-> << >>]
    ELSE LET from == Min(IndexesOf(s, {"{"}))
             ends == {i \in from..Len(s) : CountsAt(s, from, i, "}") /\ DepthAt(s, from, i) = 0}
         IN  IF ends = {} THEN [found |-> FALSE, jsonStr |-> << >>]
             ELSE [found |-> TRUE, jsonStr |-> SubSeq(s, from, Min(ends))]

\* C23: for a text without a json code fence, the span handed to JSON.parse
\* starts at the first "{" and ends at the first "}" at which the brace
\* depth is back to zero, braces inside string literals and characters
\* behind a backslash not counting; the text before and after it is left
\* out; and when the depth never comes back to zero there is no span and
\* the decision is Respond.
C23_BraceScanner ==
    Parsed /\ NoFence(input) =>
        /\ extractJson(input) = ReferenceSpan(input)
        /\ ~ReferenceSpan(input).found => output.action = "respond" /\ ~output.raised

\* a "}" inside a string literal is passed over and the span ends at the
\* brace behind the literal
C23_Witness ==
    /\ Parsed /\ NoFence(input)
    /\ \E i \in 2..(Len(input) - 1) : input[i] = "}" /\ InStringAt(input, 1, i)
    /\ input[1] = "{"
    /\ extractJson(input).found
    /\ extractJson(input).jsonStr = input

\* ------------------------------------------------------------------ C21
BothReturned == \A a \in Agents : calls[a].pc = "done"

\* C21: run side by side with the same maxIterations and the same answers
\* of the model, the tool search and the tool, SimplifiedUtcpAgent and
\* UtcpAgent have entered the same phases in the same order, called the same
\* tools and both given, or both not given, a final response when they have
\* returned.
C21_SameWorkflow ==
    BothReturned =>
        /\ calls["simplified"].phases = calls["utcp"].phases
        /\ calls["simplified"].called = calls["utcp"].called
        /\ calls["simplified"].response = calls["utcp"].response

\* ------------------------------------------------------------------ C30
\* a step of a handleSendMessage call made with an agent: its beginning,
\* the handling of one step of the stream, its completion
CallBegins == app.pc = "idle" /\ app'.pc = "streaming"
CallGoesOn == app.pc = "streaming" /\ app'.pc = "streaming"
CallCompletes == app.pc = "streaming" /\ app'.pc = "idle"

\* C30: a handleSendMessage call made while an agent exists adds one user
\* message when it begins, nothing while it pulls the steps, and one
\* assistant message when it completes, whether the stream returned after a
\* respond step with a response, returned without one, or threw;
\* isStreaming is true from its beginning, before any step is pulled, and
\* false once it has completed.
C30_OneUserOneAssistant ==
    /\ [][/\ CallBegins =>
                /\ app'.messages = Append(app.messages, ChatMessage("user", "input"))
                /\ app'.isStreaming /\ app'.pulled = 0
          /\ CallGoesOn => app'.messages = app.messages /\ app'.isStreaming
          /\ CallCompletes =>
                /\ Len(app'.messages) = Len(app.messages) + 1
                /\ SubSeq(app'.messages, 1, Len(app.messages)) = app.messages
                /\ app'.messages[Len(app'.messages)].role = "assistant"
                /\ ~app'.isStreaming]_<<vars, apart>>
    /\ [](app.pc = "streaming" =>
            /\ app.isStreaming
            /\ app.messages # << >>
            /\ app.messages[Len(app.messages)] = ChatMessage("user", "input"))
    /\ [](app.pc = "idle" => ~app.isStreaming)

\* three calls: the stream returned with a response, returned without one,
\* and threw
C30_Witness ==
    /\ app.pc = "idle" /\ ~app.isStreaming
    /\ app.messages =
          << ChatMessage("user", "input"), ChatMessage("assistant", "response"),
             ChatMessage("user", "input"), ChatMessage("assistant", "no_response"),
             ChatMessage("user", "input"), ChatMessage("assistant", "error") >>

====
